---- MODULE Spec2Model ----
(***************************************************************************)
(* Model of src/src/app.py: the per-shelter knapsack formulation           *)
(* (__linear_solver, __product_type_restrictions, __solution_prepare),     *)
(* the data loading (__load_products) and the shelter loop (solve).        *)
(*                                                                         *)
(* DataFrame positions are 0-based, as in pandas/Python: the product at    *)
(* DataFrame index i is products[i + 1].  A list of BoolVars is modelled   *)
(* by the set of indices whose BoolVar is true.                            *)
(***************************************************************************)
EXTENDS Integers, Sequences, FiniteSets

VARIABLES
    pc,            \* position in solve(): "load", "loop", "save", "done", "error"
    products_csv,  \* rows of ./data/<products_filename>, in file order
    shelters_csv,  \* rows of ./data/<shelters_filename>, in file order
    config,        \* config.yaml
    products,      \* the products DataFrame after __load_products
    shelters,      \* the shelters dict after __load_products (insertion ordered)
    k,             \* position of the for loop in shelters.keys()
    output,        \* solve()'s output: None or a DataFrame (sequence of rows)
    written,       \* ./data/output.csv: absent (exists = FALSE) or its rows
    calls          \* trace of the __linear_solver calls made so far

vars == <<pc, products_csv, shelters_csv, config, products, shelters, k,
          output, written, calls>>

----------------------------------------------------------------------------
(* Bounds of the model *)

MaxProducts == 2
MaxShelters == 2

\* cp_model.OPTIMAL, the status __linear_solver tests for, and
\* cp_model.INFEASIBLE, the other status a solve without limits ends with.
OPTIMAL == 4
INFEASIBLE == 3

Types == {"product_food", "product_medicines"}
ConvenienceValues == {0, 2}
Prices == {1, 2}
\* product_volume as read from the CSV: a real, here a fraction <<num, den>>
RawVolumes == {<<1, 2>>, <<3, 2>>}
\* a rule cell after split('-'): one integer (exact) or two (from - to)
RuleCells == {<<0>>, <<1>>, <<0, 1>>, <<1, 2>>}
LoopRuleCells == {<<1>>, <<0, 1>>}
\* config.yaml
VolumeFactors == {1, 2}
VolumeMins == {1}
VolumeMaxs == {2}
PriceTargets == {2, 3}

----------------------------------------------------------------------------
(* Helpers *)

\* indices 0 .. n-1 of a DataFrame or list of length n
RangeIdx(n) == 0 .. (n - 1)

\* sum(f[i] for i in range(n)), f a function on 0 .. n-1
RECURSIVE SumTo(_, _)
SumTo(f, n) == IF n = 0 THEN 0 ELSE f[n - 1] + SumTo(f, n - 1)

\* the largest element of a non-empty set of integers
MaxOf(S) == CHOOSE x \in S : \A y \in S : y <= x

\* the smallest element of a non-empty set of integers
MinOf(S) == CHOOSE x \in S : \A y \in S : x <= y

\* the elements of a set of integers as an increasing sequence
RECURSIVE Ascending(_)
Ascending(S) ==
    IF S = {} THEN <<>>
    ELSE LET m == MinOf(S) IN <<m>> \o Ascending(S \ {m})

----------------------------------------------------------------------------
(* __load_products *)

\* string order of the product_type labels, as sort_values compares them
TypeRank(t) ==
    CASE t = "product_food" -> 1
      [] t = "product_medicines" -> 2
      [] t = "product_supplies" -> 3

\* products['product_volume'] * volume_factor, then astype(int): truncation
ScaleVolume(raw, volume_factor) == (raw[1] * volume_factor) \div raw[2]

\* the order of sort_values(['product_type', 'article'])
SortsBefore(a, b) ==
    \/ TypeRank(a.product_type) < TypeRank(b.product_type)
    \/ /\ a.product_type = b.product_type
       /\ a.article < b.article

\* sort_values(['product_type', 'article']) and reset_index(drop=True)
SortValues(rows) ==
    LET n == Len(rows)
        pos(r) == 1 + Cardinality({q \in 1 .. n : SortsBefore(rows[q], rows[r])})
    IN  [i \in 1 .. n |-> rows[CHOOSE r \in 1 .. n : pos(r) = i]]

\* the products DataFrame __load_products returns
LoadProducts(rows, volume_factor) ==
    SortValues([r \in 1 .. Len(rows) |->
        [rows[r] EXCEPT !.product_volume = ScaleVolume(@, volume_factor)]])

\* the shelters dict __load_products returns: shelter_name -> {category -> rule};
\* kept as the sequence of its items, in insertion (file) order
LoadShelters(rows) ==
    [r \in 1 .. Len(rows) |->
        [shelter_name |-> rows[r].shelter_name,
         rules |-> [t \in Types |-> rows[r][t]]]]

----------------------------------------------------------------------------
(* __product_type_restrictions *)

\* the product_type values of the DataFrame
TypesIn(prods) == {prods[i].product_type : i \in 1 .. Len(prods)}

\* DataFrame indices of the products of one type
IndicesOf(prods, t) == {i \in RangeIdx(Len(prods)) : prods[i + 1].product_type = t}

\* prods_type: for each product_type, the index kept by
\* drop_duplicates(keep='first') and the one kept by drop_duplicates(keep='last')
ProdsType(prods) ==
    {[product_type |-> t,
      start |-> MinOf(IndicesOf(prods, t)),
      end |-> MaxOf(IndicesOf(prods, t))] : t \in TypesIn(prods)}

\* the indices of the Python slice bools[start:end] of a list of length n
Slice(n, start, end) == {i \in RangeIdx(n) : start <= i /\ i < end}

\* sum(bools[start:end]): the number of true BoolVars in the slice
SumBools(bools, n, start, end) == Cardinality(bools \cap Slice(n, start, end))

\* the constraint(s) added for one row of prods_type
RuleHolds(rule, count) ==
    IF Len(rule) > 1
    THEN count >= rule[1] /\ count <= rule[2]
    ELSE count = rule[1]

\* all constraints __product_type_restrictions adds, on an assignment of bools
ProductTypeRestrictions(prods, bools, shelter) ==
    \A row \in ProdsType(prods) :
        RuleHolds(shelter[row.product_type],
                  SumBools(bools, Len(prods), row.start, row.end))

----------------------------------------------------------------------------
(* __linear_solver: the constraint model *)

\* p, v, w: the value columns, as functions on the DataFrame indices
ColP(prods) == [i \in RangeIdx(Len(prods)) |-> prods[i + 1].convenience_value]
ColV(prods) == [i \in RangeIdx(Len(prods)) |-> prods[i + 1].product_volume]
ColW(prods) == [i \in RangeIdx(Len(prods)) |-> prods[i + 1].product_price]

\* the values the solver may give to (bools, vars_p): every BoolVar is free and
\* vars_p[i] is NewIntVar(0, p[i])
Assignments(prods) ==
    LET n == Len(prods)
        p == ColP(prods)
        top == MaxOf({0} \cup {p[i] : i \in RangeIdx(n)})
    IN  {[bools |-> b, vars_p |-> f] :
            b \in SUBSET RangeIdx(n),
            f \in {g \in [RangeIdx(n) -> 0 .. top] : \A i \in RangeIdx(n) : g[i] <= p[i]}}

\* LinkP with the selected side enforced as vars_p[i] >= 0
MutLinkP(bools, vars_p, i) ==
    /\ i \in bools => vars_p[i] >= 0
    /\ i \notin bools => vars_p[i] < 1

\* vars_p[i] > 0 if bools[i], vars_p[i] < 1 if not
LinkP(bools, vars_p, i) ==
    /\ i \in bools => vars_p[i] > 0
    /\ i \notin bools => vars_p[i] < 1

\* vars_v: vars_v[i] == v[i] if bools[i], vars_v[i] == 0 if not (the only value
\* these two constraints leave to NewIntVar(0, v[i]))
VarsV(prods, bools) ==
    [i \in RangeIdx(Len(prods)) |-> IF i \in bools THEN ColV(prods)[i] ELSE 0]

\* vars_w: vars_w[i] == w[i] if bools[i], vars_w[i] == 0 if not
VarsW(prods, bools) ==
    [i \in RangeIdx(Len(prods)) |-> IF i \in bools THEN ColW(prods)[i] ELSE 0]

\* VolumeHolds without the upper bound
MutVolumeHolds(sum_vars_v, cfg) ==
    sum_vars_v >= cfg.volume_min * cfg.volume_factor

\* sum(vars_v) >= volume_min*volume_factor and <= volume_max*volume_factor
VolumeHolds(sum_vars_v, cfg) ==
    /\ sum_vars_v >= cfg.volume_min * cfg.volume_factor
    /\ sum_vars_v <= cfg.volume_max * cfg.volume_factor

\* PriceHolds as an upper bound instead of an equality
MutPriceHolds(sum_vars_w, cfg) == sum_vars_w <= cfg.price_meet

\* sum(vars_w) == price_meet
PriceHolds(sum_vars_w, cfg) == sum_vars_w = cfg.price_meet

\* every constraint of the model holds for the assignment a
Feasible(prods, shelter, cfg, a) ==
    LET n == Len(prods) IN
    /\ \A i \in RangeIdx(n) : LinkP(a.bools, a.vars_p, i)
    /\ PriceHolds(SumTo(VarsW(prods, a.bools), n), cfg)
    /\ VolumeHolds(SumTo(VarsV(prods, a.bools), n), cfg)
    /\ ProductTypeRestrictions(prods, a.bools, shelter)

\* model.Maximize(sum(vars_p))
Objective(prods, a) == SumTo(a.vars_p, Len(prods))

----------------------------------------------------------------------------
(* __solution_prepare *)

\* idx: the indices i with solver.Value(vars_p[i]) > 0
SelectedIdx(prods, vars_p) == {i \in RangeIdx(Len(prods)) : vars_p[i] > 0}

\* prods: the rows of products whose index is in idx, with the shelter column
SolutionPrepare(prods, vars_p, shelter_name) ==
    LET order == Ascending(SelectedIdx(prods, vars_p))
    IN  [j \in 1 .. Len(order) |->
            [article |-> prods[order[j] + 1].article,
             product_type |-> prods[order[j] + 1].product_type,
             convenience_value |-> prods[order[j] + 1].convenience_value,
             product_volume |-> prods[order[j] + 1].product_volume,
             product_price |-> prods[order[j] + 1].product_price,
             shelter |-> shelter_name]]

----------------------------------------------------------------------------
(* __linear_solver: solving *)

\* solver.Solve(model).  The engine (CP-SAT, no limits set) ends with OPTIMAL on
\* some assignment of maximal objective among the feasible ones, which one is
\* its own choice, or with INFEASIBLE when there is none.
Solve(prods, shelter, cfg) ==
    LET feasible == {a \in Assignments(prods) : Feasible(prods, shelter, cfg, a)}
        best == MaxOf({Objective(prods, a) : a \in feasible})
    IN  IF feasible = {}
        THEN {[status |-> INFEASIBLE,
               bools |-> {},
               vars_p |-> [i \in RangeIdx(Len(prods)) |-> 0]]}
        ELSE {[status |-> OPTIMAL, bools |-> a.bools, vars_p |-> a.vars_p] :
                    a \in {c \in feasible : Objective(prods, c) = best}}

\* what __linear_solver returns for one outcome of the engine: the prepared
\* rows if status == 4, else pd.DataFrame()
Returned(prods, shelter_name, solved) ==
    IF solved.status = OPTIMAL
    THEN SolutionPrepare(prods, solved.vars_p, shelter_name)
    ELSE <<>>

\* the calls __linear_solver(products, shelters, shelter_name, config) can make:
\* the engine's outcome, the line it prints and the DataFrame it returns
LinearSolver(prods, shelter, cfg) ==
    {[shelter_name |-> shelter.shelter_name,
      status |-> solved.status,
      bools |-> solved.bools,
      vars_p |-> solved.vars_p,
      printed |-> IF solved.status = OPTIMAL THEN "Find solution" ELSE "Can't find solution",
      solution |-> Returned(prods, shelter.shelter_name, solved)] :
        solved \in Solve(prods, shelter.rules, cfg)}

----------------------------------------------------------------------------
(* solve *)

None == [isNone |-> TRUE, rows |-> <<>>]

\* Accumulate with the new rows replacing the earlier ones
MutAccumulate(out, solution) ==
    IF Len(solution) > 0
    THEN [isNone |-> FALSE, rows |-> solution]
    ELSE out

\* the body of the for loop after the call: output given the returned solution
Accumulate(out, solution) ==
    IF Len(solution) > 0
    THEN IF out.isNone
         THEN [isNone |-> FALSE, rows |-> solution]
         ELSE [isNone |-> FALSE, rows |-> out.rows \o solution]
    ELSE out

----------------------------------------------------------------------------
(* The inputs: the two CSV files and config.yaml *)

ProductRows(types, values, volumes, prices) ==
    [product_type : types, convenience_value : values,
     product_volume : volumes, product_price : prices]

\* a products file of n rows; article is unique, here the row number
ProductFiles(n, rowset) ==
    {[r \in 1 .. n |->
        [article |-> r,
         product_type |-> f[r].product_type,
         convenience_value |-> f[r].convenience_value,
         product_volume |-> f[r].product_volume,
         product_price |-> f[r].product_price]] : f \in [1 .. n -> rowset]}

\* a shelters file of m rows; shelter_name is unique, here the row number
ShelterFiles(m, cells) ==
    {[r \in 1 .. m |->
        [shelter_name |-> r,
         product_food |-> f[r].product_food,
         product_medicines |-> f[r].product_medicines]] :
            f \in [1 .. m -> [product_food : cells, product_medicines : cells]]}

Configs(factors, mins, maxs, targets) ==
    [volume_factor : factors, volume_min : mins, volume_max : maxs, price_meet : targets]

\* the files whose rows list the categories in descending order of their label:
\* every sorted catalog is the sorted form of one of them
Descending(files) ==
    {pf \in files : \A r \in 1 .. (Len(pf) - 1) :
        TypeRank(pf[r].product_type) >= TypeRank(pf[r + 1].product_type)}

\* one shelter, with products and rules from the full domains
SolverInputs ==
    {[products_csv |-> pf, shelters_csv |-> sf, config |-> c] :
        pf \in UNION {Descending(ProductFiles(n,
                        ProductRows(Types, ConvenienceValues, RawVolumes, Prices))) :
                            n \in 1 .. MaxProducts},
        sf \in ShelterFiles(1, RuleCells),
        c \in Configs({2}, VolumeMins, VolumeMaxs, PriceTargets)}

\* up to MaxShelters shelters, products in any order, with rows and rules from
\* narrow domains
LoopInputs ==
    {[products_csv |-> pf, shelters_csv |-> sf, config |-> c] :
        pf \in UNION {ProductFiles(n, ProductRows(Types, {2}, {<<3, 2>>}, {1})) :
                        n \in 1 .. MaxProducts},
        sf \in UNION {ShelterFiles(m, LoopRuleCells) : m \in 0 .. MaxShelters},
        c \in Configs(VolumeFactors, VolumeMins, VolumeMaxs, {1, 2})}

Inputs == SolverInputs \cup LoopInputs

----------------------------------------------------------------------------
(* The program *)

Init ==
    /\ \E in \in Inputs :
        /\ products_csv = in.products_csv
        /\ shelters_csv = in.shelters_csv
        /\ config = in.config
    /\ pc = "load"
    /\ products = <<>>
    /\ shelters = <<>>
    /\ k = 1
    /\ output = None
    /\ written = [exists |-> FALSE, rows |-> <<>>]
    /\ calls = <<>>

\* solve, lines 136-141: config is read, __load_products runs, output = None
Load ==
    /\ pc = "load"
    /\ products' = LoadProducts(products_csv, config.volume_factor)
    /\ shelters' = LoadShelters(shelters_csv)
    /\ output' = None
    /\ k' = 1
    /\ pc' = "loop"
    /\ UNCHANGED <<products_csv, shelters_csv, config, written, calls>>

\* one iteration of the for loop, lines 143-149
SolveShelter ==
    /\ pc = "loop"
    /\ k <= Len(shelters)
    /\ \E call \in LinearSolver(products, shelters[k], config) :
        /\ calls' = Append(calls, call)
        /\ output' = Accumulate(output, call.solution)
    /\ k' = k + 1
    /\ UNCHANGED <<pc, products_csv, shelters_csv, config, products, shelters, written>>

\* lines 150-151 with output a DataFrame: to_csv if it has rows
SaveOutput ==
    /\ pc = "loop"
    /\ k > Len(shelters)
    /\ ~output.isNone
    /\ written' = IF Len(output.rows) > 0
                  THEN [exists |-> TRUE, rows |-> output.rows]
                  ELSE written
    /\ pc' = "done"
    /\ UNCHANGED <<products_csv, shelters_csv, config, products, shelters, k, output, calls>>

\* line 150 with output still None: None.shape raises AttributeError
SaveRaises ==
    /\ pc = "loop"
    /\ k > Len(shelters)
    /\ output.isNone
    /\ pc' = "error"
    /\ UNCHANGED <<products_csv, shelters_csv, config, products, shelters, k, output,
                   written, calls>>

Next == Load \/ SolveShelter \/ SaveOutput \/ SaveRaises

Spec == Init /\ [][Next]_vars

----------------------------------------------------------------------------
(* What the properties speak of *)

\* the rules of the shelter a call was made for
RulesOf(call) ==
    shelters[CHOOSE j \in 1 .. Len(shelters) :
                shelters[j].shelter_name = call.shelter_name].rules

\* the calls that returned an allocation
Succeeded == {j \in 1 .. Len(calls) : calls[j].status = OPTIMAL}

\* number of rows of a DataFrame with the given product_type
CountOfType(rows, t) == Cardinality({r \in 1 .. Len(rows) : rows[r].product_type = t})

RECURSIVE SumPrice(_)
SumPrice(rows) ==
    IF rows = <<>> THEN 0 ELSE Head(rows).product_price + SumPrice(Tail(rows))

RECURSIVE SumVolume(_)
SumVolume(rows) ==
    IF rows = <<>> THEN 0 ELSE Head(rows).product_volume + SumVolume(Tail(rows))

RECURSIVE SumConvenience(_)
SumConvenience(rows) ==
    IF rows = <<>> THEN 0 ELSE Head(rows).convenience_value + SumConvenience(Tail(rows))

\* sum of a column over a set of DataFrame indices
RECURSIVE SumOver(_, _)
SumOver(col, S) ==
    IF S = {} THEN 0
    ELSE LET i == MinOf(S) IN col[i] + SumOver(col, S \ {i})

\* the subsets of the catalog that meet the volume bounds, the price target and
\* the rule of every category present, each count taken over the whole category
MeetsAllRules(S, rules) ==
    /\ SumOver(ColV(products), S) >= config.volume_min * config.volume_factor
    /\ SumOver(ColV(products), S) <= config.volume_max * config.volume_factor
    /\ SumOver(ColW(products), S) = config.price_meet
    /\ \A t \in TypesIn(products) :
        LET count == Cardinality(S \cap IndicesOf(products, t))
        IN  IF Len(rules[t]) > 1
            THEN rules[t][1] <= count /\ count <= rules[t][2]
            ELSE count = rules[t][1]

Admissible(rules) == {S \in SUBSET RangeIdx(Len(products)) : MeetsAllRules(S, rules)}

\* the sets of BoolVars that meet every constraint the model states on bools
\* alone: price, volume and the category sums as emitted
MeetsEmitted(b, rules) ==
    /\ PriceHolds(SumOver(ColW(products), b), config)
    /\ VolumeHolds(SumOver(ColV(products), b), config)
    /\ ProductTypeRestrictions(products, b, rules)

ZeroValued == {i \in RangeIdx(Len(products)) : ColP(products)[i] = 0}

\* the rows the successful calls returned, in call order
RECURSIVE RowsOfSucceeded(_)
RowsOfSucceeded(cs) ==
    IF cs = <<>> THEN <<>>
    ELSE (IF Head(cs).status = OPTIMAL THEN Head(cs).solution ELSE <<>>)
            \o RowsOfSucceeded(Tail(cs))

----------------------------------------------------------------------------
(* Properties *)

\* C1: in every returned allocation, for every category present in the
\* catalog, the number of selected products of the category meets the
\* shelter's rule: equal to n for an exact rule, within [lo, hi] for a range.
C1_CategoryCountsMeetRules ==
    \A j \in Succeeded : \A t \in TypesIn(products) :
        LET count == CountOfType(calls[j].solution, t)
            rule == RulesOf(calls[j])[t]
        IN  IF Len(rule) > 1
            THEN rule[1] <= count /\ count <= rule[2]
            ELSE count = rule[1]

\* C2: in every returned allocation the product_price of the returned rows
\* sums to config['price_meet'] exactly.
C2_PriceExact ==
    \A j \in Succeeded : SumPrice(calls[j].solution) = config.price_meet

\* C2 witness: an allocation of two products of different prices was returned
C2_Witness ==
    \E j \in Succeeded :
        /\ Len(calls[j].solution) = 2
        /\ calls[j].solution[1].product_price # calls[j].solution[2].product_price

\* C3: in every returned allocation the total volume in original units, the
\* sum of the scaled volumes divided by volume_factor, is within
\* [volume_min, volume_max]; with volume_factor > 0 that is the scaled sum
\* within [volume_min * volume_factor, volume_max * volume_factor].
C3_VolumeWithinBounds ==
    \A j \in Succeeded :
        /\ config.volume_factor > 0
        /\ SumVolume(calls[j].solution) >= config.volume_min * config.volume_factor
        /\ SumVolume(calls[j].solution) <= config.volume_max * config.volume_factor

\* C3 witness: an allocation was returned while some set of products meeting
\* the price target and the category sums was outside the volume bounds
C3_Witness ==
    \E j \in Succeeded :
        /\ Len(calls[j].solution) > 0
        /\ \E b \in SUBSET RangeIdx(Len(products)) :
            /\ PriceHolds(SumOver(ColW(products), b), config)
            /\ ProductTypeRestrictions(products, b, RulesOf(calls[j]))
            /\ ~VolumeHolds(SumOver(ColV(products), b), config)

\* C4: the convenience_value of every returned allocation sums to the maximum
\* over all subsets of the catalog that meet the volume bounds, the price
\* target and every category rule of the shelter.  Stated for the catalogs
\* without a zero-valued product, where the exclusion of C10 plays no part.
C4_MaximalAmongAdmissible ==
    \A j \in Succeeded :
        LET adm == Admissible(RulesOf(calls[j]))
        IN  ZeroValued = {} =>
            /\ adm # {}
            /\ SumConvenience(calls[j].solution)
                 = MaxOf({SumOver(ColP(products), S) : S \in adm})

\* C5: the shelters are solved one after the other in input order, whatever
\* the earlier outcomes, and output is the concatenation, in that order, of
\* the rows of exactly the successful solves.
C5_LoopAccumulatesInOrder ==
    pc # "load" =>
        /\ Len(calls) = k - 1
        /\ \A j \in 1 .. Len(calls) :
            /\ calls[j].shelter_name = shelters[j].shelter_name
            /\ calls[j].status # OPTIMAL => calls[j].solution = <<>>
        /\ output.rows = RowsOfSucceeded(calls)
        /\ pc \in {"done", "error"} => Len(calls) = Len(shelters)

\* C5 witness: the run ended after a failed shelter followed by a successful one
C5_Witness ==
    /\ pc = "done"
    /\ \E i, j \in 1 .. Len(calls) :
        /\ i < j
        /\ calls[i].status # OPTIMAL
        /\ calls[j].status = OPTIMAL
        /\ Len(calls[j].solution) > 0

\* C6: if no shelter of the run produced an allocation, solve ends normally
\* and does not write the output file.
C6_NoAllocationEndsNormally ==
    (k > Len(shelters) /\ pc # "loop" /\ pc # "load" /\ Succeeded = {}) =>
        (pc = "done" /\ ~written.exists)

\* C7: no model is built and solved for a shelter whose rules name a category
\* without a product in the catalog: that solve fails fast with an error, so
\* it returns no allocation.  Stated for the rules that a count of zero does
\* not meet, the ones whose omission changes the result.
C7_MissingCategoryFailsFast ==
    \A j \in 1 .. Len(calls) :
        (\E t \in DOMAIN RulesOf(calls[j]) :
            t \notin TypesIn(products) /\ ~RuleHolds(RulesOf(calls[j])[t], 0)) =>
                calls[j].status # OPTIMAL

\* C8: for every category of the sorted catalog, start is the index of its
\* first product and end is one past the index of its last, so bools[start:end]
\* holds the indicator of every product of the category and of no other.
C8_RangeCoversCategory ==
    Len(calls) > 0 =>
        \A row \in ProdsType(products) :
            LET members == IndicesOf(products, row.product_type)
            IN  /\ row.start = MinOf(members)
                /\ row.end = MaxOf(members) + 1
                /\ Slice(Len(products), row.start, row.end) = members

====
